---- MODULE Spec2Model ----
(***************************************************************************)
(* Model of iota/transaction.py: ProposedTransaction and ProposedBundle    *)
(* (add_transaction, add_inputs, send_unspent_inputs_to, finalize,         *)
(* sign_inputs) and Transaction (from_tryte_string, as_tryte_string), and  *)
(* of PrivateKey.get_digest as test/crypto/types_test.py documents it.     *)
(* One action per public call; a call that raises leaves whatever it had   *)
(* already written, exactly as the Python does.                            *)
(*                                                                         *)
(* Optional (nullable) values are sequences: None is <<>>, a set value v   *)
(* is <<v>>.                                                               *)
(*                                                                         *)
(* Each method is an operator from the bundle and the arguments to the     *)
(* bundle after the call and the call's result; the actions apply these    *)
(* operators to the state.  `last` records the last call and its result.   *)
(* A property "for every argument" is stated over the operator in every    *)
(* reachable state.  Spec is the builder operations alone; SpecDirect adds *)
(* the caller's writes to the value of a transaction obtained by           *)
(* bundle[i]; SpecMessages adds transactions with messages of many         *)
(* lengths; SpecSign builds, finalizes and signs bundles with several      *)
(* spent inputs; SpecCodec parses and serializes Transaction objects;      *)
(* SpecDigest computes digests of private keys.                            *)
(***************************************************************************)
EXTENDS Integers, Sequences, FiniteSets, TLC

VARIABLES hash, tag, transactions, last, attached, wire, private_key, digest

vars == <<hash, tag, transactions, last, attached, wire, private_key, digest>>

\* the fields of the one ProposedBundle
bundleVars == <<hash, tag, transactions>>

\* the Transaction object the caller holds and the tryte string it last
\* parsed or serialized
codecVars == <<attached, wire>>

\* the PrivateKey the caller holds and the digest it last computed
keyVars == <<private_key, digest>>

----------------------------------------------------------------------------
(* Bounds of the model *)

\* longest bundle the model builds
MaxTxs == 8
\* most transactions the caller adds through add_transaction (outputs and
\* their message continuations)
MaxOutputs == 2
\* most transactions that hold a negative value written by the caller
MaxSpends == 1
\* longest list of addresses passed to one add_inputs call
MaxInputs == 2
\* longest bundle built in the runs that add transactions with long messages
MaxMessageTxs == 3
\* most negative values written by the caller in the runs that sign several
\* inputs
MaxSignedSpends == 2
\* most fragments of a private key
MaxFragments == 4

----------------------------------------------------------------------------
(* Program constants *)

MESSAGE_LEN == 2187

DIGEST_ITERATIONS == 2

----------------------------------------------------------------------------
(* Values *)

None == <<>>

Some(v) == <<v>>

Max(a, b) == IF a >= b THEN a ELSE b

Min(a, b) == IF a <= b THEN a ELSE b

EmptyTag == ""

\* Results of a call: "ok" or the exception it raised.
OK == "ok"
ErrFinalized == "RuntimeError: Bundle is already finalized."
ErrNegative == "ValueError: Use add_inputs to add inputs to the bundle."
ErrNullBalance == "ValueError: Address has null balance"
ErrNullKeyIndex == "ValueError: Address has null key_index"
ErrInsufficient == "ValueError: Inputs are insufficient to cover bundle spend"
ErrUnspent == "ValueError: Bundle has unspent inputs"
ErrNotFinalized == "RuntimeError: Cannot sign inputs until bundle is finalized."
ErrSignKeyIndex == "ValueError: Unable to sign input; key_index is None"
ErrIndex == "IndexError: list index out of range"
ErrUnsetField == "TypeError: a field of the transaction is None"

\* An Address: the 81-tryte hash (id), whether a checksum is attached, and
\* the caller-supplied annotations balance and key_index (both nullable).
Address(id, checksum, balance, key_index) ==
  [address |-> id, checksum |-> checksum, balance |-> balance, key_index |-> key_index]

\* A tryte string: the trytes [from, to) of the text `id`, right-padded with
\* 9s to `len` trytes.
Trytes(id, from, to, len) ==
  IF to <= from THEN [id |-> "", from |-> 0, to |-> 0, len |-> len]
  ELSE [id |-> id, from |-> from, to |-> to, len |-> len]

EmptyTrytes == Trytes("", 0, 0, 0)

\* TryteString(s, pad=n)
Pad(s, n) == [s EXCEPT !.len = Max(s.len, n)]

\* s[a:b]
Slice(s, a, b) ==
  LET e == Min(b, s.len)
      n == Max(0, e - a)
  IN Trytes(s.id, Min(s.from + a, s.to), Min(s.from + e, s.to), n)

\* truth value of a tryte string (while fragment:)
TrytesTruthy(s) == s.len > 0

\* truth value of a Tag (transaction.tag or self.tag)
TagTruthy(t) == t /= EmptyTag

\* truth value of self.hash (if self.hash:)
HashIsSet(h) == h /= None

----------------------------------------------------------------------------
(* ProposedTransaction *)

\* ProposedTransaction.__init__; `now` is the clock read when timestamp is
\* not given.  `origin` is a history annotation (which builder step made the
\* transaction); the program does not store it.
ProposedTransaction(address, value, tagOpt, messageOpt, timestampOpt, now, origin) ==
  [ address   |-> address,
    message   |-> Pad(IF messageOpt = None \/ ~TrytesTruthy(messageOpt[1])
                      THEN EmptyTrytes ELSE messageOpt[1], MESSAGE_LEN),
    tag       |-> IF tagOpt = None \/ ~TagTruthy(tagOpt[1]) THEN EmptyTag ELSE tagOpt[1],
    value     |-> value,
    timestamp |-> IF timestampOpt = None \/ timestampOpt[1] = 0 THEN now ELSE timestampOpt[1],
    current_index |-> None,
    last_index    |-> None,
    bundle_hash   |-> None,
    signature_message_fragment |-> None,
    origin    |-> origin ]

----------------------------------------------------------------------------
(* ProposedBundle *)

Bundle(h, t, txs) == [hash |-> h, tag |-> t, transactions |-> txs]

Outcome(b, r) == [bundle |-> b, result |-> r]

RECURSIVE SumValues(_)
SumValues(txs) ==
  IF txs = <<>> THEN 0 ELSE Head(txs).value + SumValues(Tail(txs))

\* ProposedBundle.balance
balance(b) == SumValues(b.transactions)

\* SplitMessage with `if fragment:` in place of `while fragment:`: at most one
\* further transaction, the rest of the message is dropped
SplitMessageOnce(txs, transaction, fragment) ==
  IF ~TrytesTruthy(fragment) THEN txs
  ELSE Append(txs, ProposedTransaction(transaction.address, 0, Some(transaction.tag),
                     Some(Slice(fragment, 0, MESSAGE_LEN)), Some(transaction.timestamp),
                     transaction.timestamp, "continuation"))

\* the while loop of add_transaction: one zero-value transaction per further
\* MESSAGE_LEN trytes of the message
RECURSIVE SplitMessage(_, _, _)
SplitMessage(txs, transaction, fragment) ==
  IF ~TrytesTruthy(fragment) THEN txs
  ELSE SplitMessage(
         Append(txs, ProposedTransaction(transaction.address, 0, Some(transaction.tag),
                       Some(Slice(fragment, 0, MESSAGE_LEN)), Some(transaction.timestamp),
                       transaction.timestamp, "continuation")),
         transaction,
         Slice(fragment, MESSAGE_LEN, fragment.len))

\* RejectsValue with the bound off by one: -1 is let through
RejectsValueBelowMinusOne(v) == v < -1

\* add_transaction without its value test
RejectsNoValue(v) == FALSE

\* the value test of add_transaction
RejectsValue(v) == v < 0

\* add_transaction with insert(0, ...) in place of the first append: the new
\* transaction goes in front of the ones the bundle holds
add_transaction_in_front(b, transaction) ==
  IF HashIsSet(b.hash) THEN Outcome(b, ErrFinalized)
  ELSE IF RejectsValue(transaction.value) THEN Outcome(b, ErrNegative)
  ELSE
    LET first == ProposedTransaction(transaction.address, transaction.value,
                   Some(transaction.tag), Some(Slice(transaction.message, 0, MESSAGE_LEN)),
                   Some(transaction.timestamp), transaction.timestamp, transaction.origin)
        newTag == IF TagTruthy(transaction.tag) THEN Some(transaction.tag) ELSE b.tag
        rest == Slice(transaction.message, MESSAGE_LEN, transaction.message.len)
    IN Outcome(Bundle(b.hash, newTag,
                      SplitMessage(<<first>> \o b.transactions, transaction, rest)),
               OK)

\* ProposedBundle.add_transaction
add_transaction(b, transaction) ==
  IF HashIsSet(b.hash) THEN Outcome(b, ErrFinalized)
  ELSE IF RejectsValue(transaction.value) THEN Outcome(b, ErrNegative)
  ELSE
    LET first == ProposedTransaction(transaction.address, transaction.value,
                   Some(transaction.tag), Some(Slice(transaction.message, 0, MESSAGE_LEN)),
                   Some(transaction.timestamp), transaction.timestamp, transaction.origin)
        newTag == IF TagTruthy(transaction.tag) THEN Some(transaction.tag) ELSE b.tag
        rest == Slice(transaction.message, MESSAGE_LEN, transaction.message.len)
    IN Outcome(Bundle(b.hash, newTag,
                      SplitMessage(Append(b.transactions, first), transaction, rest)),
               OK)

\* the DIGEST_ITERATIONS filler transactions of one input
RECURSIVE AddFillers(_, _, _, _)
AddFillers(b, addy, nows, k) ==
  IF k = 0 THEN Outcome(b, OK)
  ELSE
    LET r == add_transaction(b, ProposedTransaction(addy, 0, b.tag, None, None,
                                                    Head(nows), "filler"))
    IN IF r.result /= OK THEN r
       ELSE AddFillers(r.bundle, addy, Tail(nows), k - 1)

\* ProposedBundle.add_inputs; nows[k] is the clock read by the k-th
\* ProposedTransaction the call constructs
RECURSIVE add_inputs_loop(_, _, _)
add_inputs_loop(b, inputs, nows) ==
  IF inputs = <<>> THEN Outcome(b, OK)
  ELSE
    LET addy == Head(inputs) IN
    IF addy.balance = None THEN Outcome(b, ErrNullBalance)
    ELSE IF addy.key_index = None THEN Outcome(b, ErrNullKeyIndex)
    ELSE
      LET r == add_transaction(b, ProposedTransaction(addy, 0 - addy.balance[1], b.tag,
                                                      None, None, Head(nows), "spend"))
      IN IF r.result /= OK THEN r
         ELSE
           LET f == AddFillers(r.bundle, addy, Tail(nows), DIGEST_ITERATIONS)
           IN IF f.result /= OK THEN f
              ELSE add_inputs_loop(f.bundle, Tail(inputs),
                                   SubSeq(nows, DIGEST_ITERATIONS + 2, Len(nows)))

\* add_inputs without its test of self.hash
add_inputs_unguarded(b, inputs, nows) == add_inputs_loop(b, inputs, nows)

add_inputs(b, inputs, nows) ==
  IF HashIsSet(b.hash) THEN Outcome(b, ErrFinalized)
  ELSE add_inputs_loop(b, inputs, nows)

\* send_unspent_inputs_to with `>= 0` in place of `> 0`: a balanced bundle
\* gets a change transaction of value 0
send_unspent_inputs_to_balanced(b, address, now) ==
  IF HashIsSet(b.hash) THEN Outcome(b, ErrFinalized)
  ELSE
    LET unspent_inputs == 0 - balance(b) IN
    IF unspent_inputs >= 0
    THEN add_transaction(b, ProposedTransaction(address, unspent_inputs, b.tag, None,
                                                None, now, "change"))
    ELSE Outcome(b, OK)

\* ProposedBundle.send_unspent_inputs_to
send_unspent_inputs_to(b, address, now) ==
  IF HashIsSet(b.hash) THEN Outcome(b, ErrFinalized)
  ELSE
    LET unspent_inputs == 0 - balance(b) IN
    IF unspent_inputs > 0
    THEN add_transaction(b, ProposedTransaction(address, unspent_inputs, b.tag, None,
                                                None, now, "change"))
    ELSE Outcome(b, OK)

----------------------------------------------------------------------------
(* Tryte strings made of several parts, and integers in trytes *)

\* A concatenated tryte string is a sequence of pieces.  A piece is a
\* Trytes(id, from, to, len), or the trytes [from, to) of the balanced-ternary
\* encoding of an integer: [id |-> "int", from, to, len, value].

IntPiece(v, from, to) ==
  [id |-> "int", from |-> from, to |-> to, len |-> to - from, value |-> v]

RECURSIVE Length(_)
Length(w) == IF w = <<>> THEN 0 ELSE Head(w).len + Length(Tail(w))

\* whether piece q continues piece p, so that p + q is one piece
Continues(p, q) ==
  IF q.id = "" THEN p.id /= "int"
  ELSE /\ p.id = q.id
       /\ p.to = q.from
       /\ p.len = p.to - p.from
       /\ p.id = "int" => p.value = q.value

Merged(p, q) ==
  IF q.id = "" THEN [p EXCEPT !.len = p.len + q.len]
  ELSE [p EXCEPT !.to = q.to, !.len = p.len + q.len]

\* TryteString.__add__: w followed by x
RECURSIVE Concat(_, _)
Concat(w, x) ==
  IF x = <<>> THEN w
  ELSE IF Head(x).len = 0 THEN Concat(w, Tail(x))
  ELSE IF w /= <<>> /\ Continues(w[Len(w)], Head(x))
       THEN Concat(Append(SubSeq(w, 1, Len(w) - 1), Merged(w[Len(w)], Head(x))), Tail(x))
       ELSE Concat(Append(w, Head(x)), Tail(x))

\* a + b + c + ...
RECURSIVE Join(_)
Join(parts) ==
  IF parts = <<>> THEN <<>>
  ELSE Concat(Join(SubSeq(parts, 1, Len(parts) - 1)), parts[Len(parts)])

\* p[a:b] for one piece, 0 <= a <= b <= p.len
CutPiece(p, a, b) ==
  IF p.id = "int" THEN IntPiece(p.value, p.from + a, p.from + b)
  ELSE Slice(p, a, b)

\* w[a:b]
RECURSIVE Cut(_, _, _)
Cut(w, a, b) ==
  IF w = <<>> \/ b <= 0 \/ b <= a THEN <<>>
  ELSE
    LET h == Head(w) IN
    IF a >= h.len THEN Cut(Tail(w), a - h.len, b - h.len)
    ELSE Concat(<<CutPiece(h, a, Min(b, h.len))>>, Cut(Tail(w), 0, b - h.len))

\* TryteString(w, pad=n) and the fixed-width types Address, Tag, Hash
PadTo(w, n) ==
  IF Length(w) >= n THEN w ELSE Concat(w, <<Trytes("", 0, 0, n - Length(w))>>)

\* trits a balanced-ternary integer needs
RECURSIVE TritsNeeded(_)
TritsNeeded(v) == IF v = 0 THEN 0 ELSE 1 + TritsNeeded((v + 1) \div 3)

\* TryteString.from_trits(trits_from_int(v, pad=pad))
IntTrytes(v, pad) == <<IntPiece(v, 0, (Max(pad, TritsNeeded(v)) + 2) \div 3)>>

----------------------------------------------------------------------------
(* Bundle Finalizer *)

\* Essence with t.address in place of t.address.address: the whole Address
\* object, checksum and annotations included
EssenceOfWholeAddress(t) ==
  <<t.address, t.value, t.tag, t.timestamp, t.current_index[1], t.last_index[1]>>

\* what finalize absorbs for one transaction: address without checksum,
\* value, tag, timestamp, current_index, last_index
Essence(t) ==
  <<t.address.address, t.value, t.tag, t.timestamp, t.current_index[1], t.last_index[1]>>

\* Curl: absorb the essences in order, squeeze one hash.  The sponge is
\* modelled as an ideal hash: the hash value is what was absorbed.
CurlHash(absorbed) == [absorbed |-> absorbed]

\* StampIndexes counting positions from 1
StampIndexesOneBased(txs) ==
  [i \in 1..Len(txs) |->
     [txs[i] EXCEPT !.current_index = Some(i), !.last_index = Some(Len(txs) - 1)]]

\* the enumerate loop of finalize: stamp current_index and last_index
StampIndexes(txs) ==
  [i \in 1..Len(txs) |->
     [txs[i] EXCEPT !.current_index = Some(i - 1), !.last_index = Some(Len(txs) - 1)]]

\* the last loop of finalize: stamp the bundle hash
StampHash(txs, h) == [i \in 1..Len(txs) |-> [txs[i] EXCEPT !.bundle_hash = Some(h)]]

\* CheckBalance without the test for a positive balance
CheckBalanceOnlyUnspent(bal) == IF bal < 0 THEN ErrUnspent ELSE OK

\* CheckBalance without the test for a negative balance
CheckBalanceOnlyInsufficient(bal) == IF bal > 0 THEN ErrInsufficient ELSE OK

\* the balance test of finalize: the error raised, or OK
CheckBalance(bal) ==
  IF bal > 0 THEN ErrInsufficient
  ELSE IF bal < 0 THEN ErrUnspent
  ELSE OK

\* the body of finalize after its test of self.hash
finalize_unguarded(b) ==
  IF CheckBalance(balance(b)) /= OK THEN Outcome(b, CheckBalance(balance(b)))
  ELSE
    LET stamped == StampIndexes(b.transactions)
        h == CurlHash([i \in 1..Len(stamped) |-> Essence(stamped[i])])
    IN Outcome(Bundle(Some(h), b.tag, StampHash(stamped, h)), OK)

\* finalize with the enumerate loop moved before the balance test: an
\* unbalanced bundle is stamped with indexes and then refused
finalize_stamping_first(b) ==
  IF HashIsSet(b.hash) THEN Outcome(b, ErrFinalized)
  ELSE IF CheckBalance(balance(b)) /= OK
       THEN Outcome(Bundle(b.hash, b.tag, StampIndexes(b.transactions)),
                    CheckBalance(balance(b)))
  ELSE
    LET stamped == StampIndexes(b.transactions)
        h == CurlHash([i \in 1..Len(stamped) |-> Essence(stamped[i])])
    IN Outcome(Bundle(Some(h), b.tag, StampHash(stamped, h)), OK)

\* finalize refusing a bundle without transactions as having insufficient
\* inputs
finalize_nonempty(b) ==
  IF HashIsSet(b.hash) THEN Outcome(b, ErrFinalized)
  ELSE IF b.transactions = <<>> THEN Outcome(b, ErrInsufficient)
  ELSE IF CheckBalance(balance(b)) /= OK THEN Outcome(b, CheckBalance(balance(b)))
  ELSE
    LET stamped == StampIndexes(b.transactions)
        h == CurlHash([i \in 1..Len(stamped) |-> Essence(stamped[i])])
    IN Outcome(Bundle(Some(h), b.tag, StampHash(stamped, h)), OK)

\* ProposedBundle.finalize
finalize(b) ==
  IF HashIsSet(b.hash) THEN Outcome(b, ErrFinalized)
  ELSE IF CheckBalance(balance(b)) /= OK THEN Outcome(b, CheckBalance(balance(b)))
  ELSE
    LET stamped == StampIndexes(b.transactions)
        h == CurlHash([i \in 1..Len(stamped) |-> Essence(stamped[i])])
    IN Outcome(Bundle(Some(h), b.tag, StampHash(stamped, h)), OK)

----------------------------------------------------------------------------
(* Input Signer *)

\* KeyGenerator.get_keys(start, iterations)[0]: the private key at key_index,
\* made of `iterations` fragments
PrivateKey(seed, key_index, iterations) ==
  [seed |-> seed, key_index |-> key_index, fragments |-> iterations]

\* the j-th 9-tryte chunk of the bundle hash (hash.iter_chunks(9))
HashChunk(h, j) == [of |-> h, chunk |-> j]

\* SignatureFragmentGenerator.send: the j-th call uses the j-th key fragment
SignatureFragment(key, j, chunk) == [key |-> key, fragment |-> j, signs |-> chunk]

\* the for loop of sign_inputs writing fragment j one transaction further
\* on, at i + j + 1
RECURSIVE WriteFragmentsShifted(_, _, _, _, _)
WriteFragmentsShifted(txs, i, j, key, h) ==
  IF j >= DIGEST_ITERATIONS THEN [transactions |-> txs, result |-> OK]
  ELSE IF i + j + 1 >= Len(txs) THEN [transactions |-> txs, result |-> ErrIndex]
  ELSE WriteFragmentsShifted(
         [txs EXCEPT ![i + j + 2].signature_message_fragment =
                       Some(SignatureFragment(key, j, HashChunk(h, j)))],
         i, j + 1, key, h)

\* the for loop of sign_inputs: write fragment j to the transaction at i + j
\* (0-based); indexing past the end of the list raises IndexError
RECURSIVE WriteFragments(_, _, _, _, _)
WriteFragments(txs, i, j, key, h) ==
  IF j >= DIGEST_ITERATIONS THEN [transactions |-> txs, result |-> OK]
  ELSE IF i + j >= Len(txs) THEN [transactions |-> txs, result |-> ErrIndex]
  ELSE WriteFragments(
         [txs EXCEPT ![i + j + 1].signature_message_fragment =
                       Some(SignatureFragment(key, j, HashChunk(h, j)))],
         i, j + 1, key, h)

\* SignFrom with the private key fetched once, for the first input of the
\* bundle, and used for every input
RECURSIVE SignFromSharedKey(_, _, _, _)
SignFromSharedKey(txs, i, seed, h) ==
  IF i >= Len(txs) THEN [transactions |-> txs, result |-> OK]
  ELSE
    LET txn == txs[i + 1]
        first == txs[CHOOSE m \in 1..Len(txs) :
                       /\ txs[m].value < 0
                       /\ \A n \in 1..(m - 1) : txs[n].value >= 0]
    IN
    IF txn.value < 0
    THEN IF txn.address.key_index = None \/ first.address.key_index = None
         THEN [transactions |-> txs, result |-> ErrSignKeyIndex]
         ELSE
           LET w == WriteFragments(txs, i, 0,
                      PrivateKey(seed, first.address.key_index[1], DIGEST_ITERATIONS), h)
           IN IF w.result /= OK THEN w
              ELSE SignFromSharedKey(w.transactions, i + (DIGEST_ITERATIONS - 1) + 1, seed, h)
    ELSE SignFromSharedKey(txs, i + 1, seed, h)

\* the while loop of sign_inputs, from cursor i (0-based)
RECURSIVE SignFrom(_, _, _, _)
SignFrom(txs, i, seed, h) ==
  IF i >= Len(txs) THEN [transactions |-> txs, result |-> OK]
  ELSE
    LET txn == txs[i + 1] IN
    IF txn.value < 0
    THEN IF txn.address.key_index = None
         THEN [transactions |-> txs, result |-> ErrSignKeyIndex]
         ELSE
           LET w == WriteFragments(txs, i, 0,
                      PrivateKey(seed, txn.address.key_index[1], DIGEST_ITERATIONS), h)
           IN IF w.result /= OK THEN w
              ELSE SignFrom(w.transactions, i + (DIGEST_ITERATIONS - 1) + 1, seed, h)
    ELSE SignFrom(txs, i + 1, seed, h)

\* sign_inputs without its test of self.hash: it signs with whatever
\* self.hash holds
sign_inputs_unguarded(b, seed) ==
  LET s == SignFrom(b.transactions, 0, seed, b.hash)
  IN Outcome(Bundle(b.hash, b.tag, s.transactions), s.result)

\* ProposedBundle.sign_inputs
sign_inputs(b, seed) ==
  IF ~HashIsSet(b.hash) THEN Outcome(b, ErrNotFinalized)
  ELSE
    LET s == SignFrom(b.transactions, 0, seed, b.hash[1])
    IN Outcome(Bundle(b.hash, b.tag, s.transactions), s.result)

----------------------------------------------------------------------------
(* Transaction *)

\* 3^n
RECURSIVE Pow3(_)
Pow3(n) == IF n = 0 THEN 1 ELSE 3 * Pow3(n - 1)

\* widest trit count whose powers of 3 the model computes; every integer of
\* the model fits in fewer trits
WideTrits == 19

\* the integer held by the lowest n trits of v
LowTrits(v, n) ==
  IF n >= WideTrits THEN v
  ELSE LET m == Pow3(n)
           h == (m - 1) \div 2
       IN ((v + h) % m) - h

\* the integer held by the trits of v from trit n up
HighTrits(v, n) ==
  IF n >= WideTrits THEN 0 ELSE (v - LowTrits(v, n)) \div Pow3(n)

\* int_from_trits(w.as_trits()) for a string that is empty, all 9s, or a
\* range of the trytes of one encoded integer
IntFromTrytes(w) ==
  IF w = <<>> \/ w[1].id = "" THEN 0
  ELSE LowTrits(HighTrits(w[1].value, 3 * w[1].from), 3 * (w[1].to - w[1].from))

\* Transaction.__init__
Transaction(hash_, signature_message_fragment, address, value, tagTrytes, timestamp, current_index, last_index, bundle_id, trunk_transaction_id, branch_transaction_id, nonce) ==
  [ hash          |-> hash_,
    bundle_id     |-> bundle_id,
    address       |-> address,
    value         |-> value,
    tag           |-> tagTrytes,
    nonce         |-> nonce,
    timestamp     |-> timestamp,
    current_index |-> current_index,
    last_index    |-> last_index,
    branch_transaction_id |-> branch_transaction_id,
    trunk_transaction_id  |-> trunk_transaction_id,
    signature_message_fragment |->
      IF signature_message_fragment = None THEN <<>> ELSE signature_message_fragment[1] ]

\* Transaction.from_tryte_string
from_tryte_string(trytes) ==
  [ transaction |->
      Transaction(
        Some(CurlHash(trytes)),
        Some(Cut(trytes, 0, 2187)),
        PadTo(Cut(trytes, 2187, 2268), 81),
        IntFromTrytes(Cut(trytes, 2268, 2295)),
        PadTo(Cut(trytes, 2295, 2322), 27),
        IntFromTrytes(Cut(trytes, 2322, 2331)),
        Some(IntFromTrytes(Cut(trytes, 2331, 2340))),
        Some(IntFromTrytes(Cut(trytes, 2340, 2349))),
        Some(PadTo(Cut(trytes, 2349, 2430), 81)),
        Some(PadTo(Cut(trytes, 2430, 2511), 81)),
        Some(PadTo(Cut(trytes, 2511, 2592), 81)),
        Some(PadTo(Cut(trytes, 2592, 2673), 81))),
    result |-> OK ]

\* the fields that are None until finalize or attachment sets them
UnsetFields(t) ==
  { f \in {"current_index", "last_index", "bundle_id", "trunk_transaction_id",
           "branch_transaction_id", "nonce"} : t[f] = None }

\* as_tryte_string with a field that is None written as no trytes at all
as_tryte_string_partial(t) ==
  LET opt(f) == IF t[f] = None THEN <<>> ELSE t[f][1]
      int(f) == IF t[f] = None THEN <<>> ELSE IntTrytes(t[f][1], 27)
  IN [ trytes |-> Join(<< t.signature_message_fragment, t.address,
                         IntTrytes(t.value, 81), t.tag, IntTrytes(t.timestamp, 27),
                         int("current_index"), int("last_index"), opt("bundle_id"),
                         opt("trunk_transaction_id"), opt("branch_transaction_id"),
                         opt("nonce") >>),
       result |-> OK ]

\* as_tryte_string with the branch written before the trunk
as_tryte_string_branch_first(t) ==
  IF UnsetFields(t) /= {} THEN [trytes |-> <<>>, result |-> ErrUnsetField]
  ELSE
    [ trytes |-> Join(<< t.signature_message_fragment,
                         t.address,
                         IntTrytes(t.value, 81),
                         t.tag,
                         IntTrytes(t.timestamp, 27),
                         IntTrytes(t.current_index[1], 27),
                         IntTrytes(t.last_index[1], 27),
                         t.bundle_id[1],
                         t.branch_transaction_id[1],
                         t.trunk_transaction_id[1],
                         t.nonce[1] >>),
      result |-> OK ]

\* Transaction.as_tryte_string
as_tryte_string(t) ==
  IF UnsetFields(t) /= {} THEN [trytes |-> <<>>, result |-> ErrUnsetField]
  ELSE
    [ trytes |-> Join(<< t.signature_message_fragment,
                         t.address,
                         IntTrytes(t.value, 81),
                         t.tag,
                         IntTrytes(t.timestamp, 27),
                         IntTrytes(t.current_index[1], 27),
                         IntTrytes(t.last_index[1], 27),
                         t.bundle_id[1],
                         t.trunk_transaction_id[1],
                         t.branch_transaction_id[1],
                         t.nonce[1] >>),
      result |-> OK ]

----------------------------------------------------------------------------
(* PrivateKey *)

\* the digest hash of one key fragment
FragmentDigest(fragment) == CurlHash(<<fragment>>)

\* get_digest with a sponge that is not reset between fragments: each hash
\* also depends on the fragments before it
get_digest_chained(k) == [i \in 1..Len(k) |-> CurlHash(SubSeq(k, 1, i))]

\* PrivateKey.get_digest: one hash per fragment of the key, in order
get_digest(k) == [i \in 1..Len(k) |-> FragmentDigest(k[i])]

----------------------------------------------------------------------------
(* The caller's inputs *)

\* the one output address, without annotations
OutputAddress == Address("A", FALSE, None, None)

\* the addresses offered to add_inputs: a null balance, a null key_index, and
\* a zero and a positive balance with a key_index
InputAddresses ==
  { Address("B", FALSE, None, Some(0)), Address("B", FALSE, Some(0), None),
    Address("B", FALSE, Some(0), Some(0)), Address("B", FALSE, Some(100), Some(0)) }

\* a message longer than one transaction holds
LongMessage == Trytes("M", 0, MESSAGE_LEN + 1, MESSAGE_LEN + 1)

Timestamps == {1}

Seeds == {"SEED"}

\* the values the caller writes directly into a transaction
DirectValues == {-100}

\* the transactions the caller constructs and passes to add_transaction
CallerTransactions ==
  { ProposedTransaction(OutputAddress, v, tg, m, Some(ts), ts, "output") :
      v \in {-1, 0, 100}, tg \in {None, Some("TAG")}, m \in {None, Some(LongMessage)},
      ts \in Timestamps }

\* the address lists the caller passes to add_inputs
InputLists == UNION { [1..n -> InputAddresses] : n \in 0..MaxInputs }

\* the narrower inputs of the runs in which the caller also writes values
DirectTransactions ==
  { ProposedTransaction(OutputAddress, v, None, None, Some(ts), ts, "output") :
      v \in {0, 100}, ts \in Timestamps }

DirectInputLists == { <<a>> : a \in InputAddresses }

\* message lengths around the multiples of MESSAGE_LEN
MessageLengths ==
  {0, 1, MESSAGE_LEN, MESSAGE_LEN + 1, 2 * MESSAGE_LEN, 2 * MESSAGE_LEN + 1,
   3 * MESSAGE_LEN + 1}

\* the first n trytes of the text "M"
Message(n) == Trytes("M", 0, n, n)

\* ProposedTransaction(address, value, tag, message, timestamp) as the caller
\* constructs it for a message of n trytes
MessageTransaction(v, tg, ts, n) ==
  ProposedTransaction(OutputAddress, v, tg, Some(Message(n)), Some(ts), ts, "output")

MessageStamps == {<<None, 1>>, <<Some("TAG"), 2>>}

MessageTransactions ==
  { MessageTransaction(v, s[1], s[2], n) :
      v \in {0, 100}, s \in MessageStamps, n \in MessageLengths }

Clocks(n) == [1..n -> Timestamps]

\* the trytes of an Address: the 81-tryte hash, and 9 more when it carries a
\* checksum
AddressTrytes(a) ==
  IF a.checksum THEN <<Trytes(a.address, 0, 81, 81), Trytes("CHECKSUM", 0, 9, 9)>>
  ELSE <<Trytes(a.address, 0, 81, 81)>>

\* Hash(id): 81 trytes
HashTrytes(id) == <<Trytes(id, 0, 81, 81)>>

\* Tag(b'TAG'): 27 trytes
TagTrytes == <<Trytes("TAG", 0, 3, 27)>>

\* signature_message_fragment arguments: none, empty, short and full
Signatures ==
  { None, Some(<<>>), Some(<<Trytes("SIG", 0, 5, 5)>>),
    Some(<<Trytes("SIG", 0, 2187, 2187)>>) }

\* the Transaction objects the caller constructs: every combination of the
\* signature and address forms and of the value, with at most one of the
\* fields set by finalize or attachment still None
ConstructedTransactions ==
  { Transaction(Some(CurlHash(HashTrytes("TX"))), sig,
                AddressTrytes(Address("A", ck, None, None)), v, TagTrytes, ts,
                IF unset = "current_index" THEN None ELSE Some(0),
                IF unset = "last_index" THEN None ELSE Some(1),
                IF unset = "bundle_id" THEN None ELSE Some(HashTrytes("BUNDLE")),
                IF unset = "trunk_transaction_id" THEN None ELSE Some(HashTrytes("TRUNK")),
                IF unset = "branch_transaction_id" THEN None ELSE Some(HashTrytes("BRANCH")),
                IF unset = "nonce" THEN None ELSE Some(HashTrytes("NONCE"))) :
      sig \in Signatures, ck \in BOOLEAN, v \in {-100, 100}, ts \in Timestamps,
      unset \in {"", "current_index", "last_index", "bundle_id", "trunk_transaction_id",
                 "branch_transaction_id", "nonce"} }

\* a transaction of value v in its 2673 trytes
Serialized(v) ==
  Join(<< <<Trytes("SIG", 0, 2187, 2187)>>, HashTrytes("A"), IntTrytes(v, 81), TagTrytes,
          IntTrytes(1, 27), IntTrytes(0, 27), IntTrytes(1, 27), HashTrytes("BUNDLE"),
          HashTrytes("TRUNK"), HashTrytes("BRANCH"), HashTrytes("NONCE") >>)

\* a transaction of value v whose signature_message_fragment is all 9s, as
\* every transaction that is not an input and carries no message has it
SerializedUnsigned(v) ==
  Join(<< <<Trytes("", 0, 0, 2187)>>, HashTrytes("A"), IntTrytes(v, 81), TagTrytes,
          IntTrytes(1, 27), IntTrytes(0, 27), IntTrytes(1, 27), HashTrytes("BUNDLE"),
          HashTrytes("TRUNK"), HashTrytes("BRANCH"), HashTrytes("NONCE") >>)

\* lengths of the strings given to from_tryte_string
WireLengths == {0, 1, 2268, 2672, 2673, 2674, 2754}

\* the strings given to from_tryte_string: a serialized transaction, cut
\* short or followed by more trytes
WireInputs ==
  { IF n <= Length(Serialized(v)) THEN Cut(Serialized(v), 0, n)
    ELSE Concat(Serialized(v), <<Trytes("X", 0, n - Length(Serialized(v)),
                                        n - Length(Serialized(v)))>>) :
      v \in {-100, 100}, n \in WireLengths }
  \cup { SerializedUnsigned(v) : v \in {0, 100} }

KeyFragments == {"F1", "F2", "F3"}

\* private keys of 1 to MaxFragments fragments
PrivateKeys == UNION { [1..n -> KeyFragments] : n \in 1..MaxFragments }

KeyIndexes == {0, 1}

\* the inputs of the runs that sign several inputs: one address per call,
\* with a zero balance and a key_index
SignInputLists == { <<Address("B", FALSE, Some(0), Some(k))>> : k \in KeyIndexes }

----------------------------------------------------------------------------
(* State machine *)

CountOrigin(txs, origins) == Cardinality({i \in 1..Len(txs) : txs[i].origin \in origins})

WithinBounds(b) ==
  /\ Len(b.transactions) <= MaxTxs
  /\ CountOrigin(b.transactions, {"output", "continuation"}) <= MaxOutputs

\* the record of the last call: which operation, and how it ended
Called(op, r) == [op |-> op, result |-> r.result]

Self == Bundle(hash, tag, transactions)

\* ProposedBundle(): an empty, unfinalized bundle
Init ==
  /\ hash = None
  /\ tag = None
  /\ transactions = <<>>
  /\ last = [op |-> "init", result |-> OK]
  /\ attached = None
  /\ wire = None
  /\ private_key = None
  /\ digest = None

AddTransaction(offered) ==
  \E t \in offered :
    LET r == add_transaction(Self, t) IN
    /\ WithinBounds(r.bundle)
    /\ hash' = r.bundle.hash
    /\ tag' = r.bundle.tag
    /\ transactions' = r.bundle.transactions
    /\ last' = Called("add_transaction", r)
    /\ UNCHANGED <<codecVars, keyVars>>

AddInputs(offered) ==
  \E inputs \in offered :
    \E nows \in Clocks(Len(inputs) * (DIGEST_ITERATIONS + 1)) :
      LET r == add_inputs(Self, inputs, nows) IN
      /\ WithinBounds(r.bundle)
      /\ hash' = r.bundle.hash
      /\ tag' = r.bundle.tag
      /\ transactions' = r.bundle.transactions
      /\ last' = Called("add_inputs", r)
    /\ UNCHANGED <<codecVars, keyVars>>

SendUnspentInputsTo ==
  \E now \in Timestamps :
    LET r == send_unspent_inputs_to(Self, OutputAddress, now) IN
    /\ WithinBounds(r.bundle)
    /\ hash' = r.bundle.hash
    /\ tag' = r.bundle.tag
    /\ transactions' = r.bundle.transactions
    /\ last' = Called("send_unspent_inputs_to", r)
    /\ UNCHANGED <<codecVars, keyVars>>

Finalize ==
  LET r == finalize(Self) IN
  /\ hash' = r.bundle.hash
  /\ tag' = r.bundle.tag
  /\ transactions' = r.bundle.transactions
  /\ last' = Called("finalize", r)
  /\ UNCHANGED <<codecVars, keyVars>>

SignInputs ==
  \E seed \in Seeds :
    LET r == sign_inputs(Self, seed) IN
    /\ hash' = r.bundle.hash
    /\ tag' = r.bundle.tag
    /\ transactions' = r.bundle.transactions
    /\ last' = Called("sign_inputs", r)
    /\ UNCHANGED <<codecVars, keyVars>>

\* the caller writes the value of a transaction it got from bundle[i], while
\* it is still building the bundle
SetValue(most) ==
  \E i \in 1..Len(transactions) :
    \E v \in DirectValues :
      /\ ~HashIsSet(hash)
      /\ transactions[i].value /= v
      /\ Cardinality({k \in 1..Len(transactions) : k /= i /\ transactions[k].value < 0})
           < most
      /\ transactions' = [transactions EXCEPT ![i].value = v]
      /\ last' = [op |-> "set_value", result |-> OK]
      /\ UNCHANGED <<hash, tag, codecVars, keyVars>>

\* add_transaction of a transaction that carries a message
AddMessage ==
  \E t \in MessageTransactions :
    LET r == add_transaction(Self, t) IN
    /\ Len(r.bundle.transactions) <= MaxMessageTxs
    /\ hash' = r.bundle.hash
    /\ tag' = r.bundle.tag
    /\ transactions' = r.bundle.transactions
    /\ last' = Called("add_transaction", r)
    /\ UNCHANGED <<codecVars, keyVars>>

\* Transaction.from_tryte_string(s)
FromTryteString ==
  \E s \in WireInputs :
    LET r == from_tryte_string(s) IN
    /\ wire' = Some(s)
    /\ attached' = IF r.result = OK THEN Some(r.transaction) ELSE attached
    /\ last' = [op |-> "from_tryte_string", result |-> r.result]
    /\ UNCHANGED <<bundleVars, keyVars>>

\* Transaction(...): the caller constructs the object itself
NewTransaction ==
  \E t \in ConstructedTransactions :
    /\ attached' = Some(t)
    /\ wire' = None
    /\ last' = [op |-> "Transaction", result |-> OK]
    /\ UNCHANGED <<bundleVars, keyVars>>

\* attached.as_tryte_string()
AsTryteString ==
  /\ attached /= None
  /\ LET r == as_tryte_string(attached[1]) IN
     /\ wire' = IF r.result = OK THEN Some(r.trytes) ELSE None
     /\ last' = [op |-> "as_tryte_string", result |-> r.result]
  /\ UNCHANGED <<attached, bundleVars, keyVars>>

\* the caller obtains a private key
NewKey ==
  \E k \in PrivateKeys :
    /\ private_key' = Some(k)
    /\ digest' = None
    /\ last' = [op |-> "PrivateKey", result |-> OK]
    /\ UNCHANGED <<bundleVars, codecVars>>

\* key.get_digest()
GetDigest ==
  /\ private_key /= None
  /\ digest' = Some(get_digest(private_key[1]))
  /\ last' = [op |-> "get_digest", result |-> OK]
  /\ UNCHANGED <<private_key, bundleVars, codecVars>>

Next ==
  \/ AddTransaction(CallerTransactions)
  \/ AddInputs(InputLists)
  \/ SendUnspentInputsTo
  \/ Finalize
  \/ SignInputs

\* the builder operations alone
Spec == Init /\ [][Next]_vars

NextDirect ==
  \/ AddTransaction(DirectTransactions)
  \/ AddInputs(DirectInputLists)
  \/ SendUnspentInputsTo
  \/ Finalize
  \/ SignInputs
  \/ SetValue(MaxSpends)

\* the builder operations and the caller's direct writes to transaction values
SpecDirect == Init /\ [][NextDirect]_vars

NextMessages ==
  \/ AddMessage
  \/ Finalize

\* bundles of transactions with messages of every length in MessageLengths
SpecMessages == Init /\ [][NextMessages]_vars

NextSign ==
  \/ AddInputs(SignInputLists)
  \/ SetValue(MaxSignedSpends)
  \/ SendUnspentInputsTo
  \/ Finalize
  \/ SignInputs

\* bundles with several inputs that spend, finalized and signed
SpecSign == Init /\ [][NextSign]_vars

NextCodec ==
  \/ FromTryteString
  \/ NewTransaction
  \/ AsTryteString

\* parsing and serializing Transaction objects
SpecCodec == Init /\ [][NextCodec]_vars

NextDigest ==
  \/ NewKey
  \/ GetDigest

\* private keys and their digests
SpecDigest == Init /\ [][NextDigest]_vars

----------------------------------------------------------------------------
(* Properties *)

\* every address a caller may pass to send_unspent_inputs_to
AnyAddress == InputAddresses \cup {OutputAddress}

\* C1: whenever the bundle hash is set, the values of the bundle's
\* transactions sum to exactly 0.
C1_FinalizedIsBalanced == hash /= None => SumValues(transactions) = 0

C1_Witness == hash /= None /\ Len(transactions) >= 2 /\ last.op = "sign_inputs"

\* C2: on an unfinalized bundle finalize fails with the insufficient-inputs
\* error when the values sum to more than 0, with the unspent-inputs error
\* when they sum to less than 0, and succeeds and sets the hash when they
\* sum to 0.
C2_FinalizeBySum ==
  hash = None =>
    LET r == finalize(Self)
        sum == SumValues(transactions)
    IN /\ sum > 0 => r.result = ErrInsufficient /\ r.bundle.hash = None
       /\ sum < 0 => r.result = ErrUnspent /\ r.bundle.hash = None
       /\ sum = 0 => r.result = OK /\ r.bundle.hash /= None

C2_Witness ==
  /\ last.op = "finalize" /\ last.result = ErrUnspent
  /\ hash = None /\ SumValues(transactions) < 0

\* C3: once the hash is set, add_transaction, add_inputs and
\* send_unspent_inputs_to fail with the finalized error for every argument
\* and leave the transaction sequence as it was.
C3_MutatorsFailOnceFinalized ==
  hash /= None =>
    /\ \A t \in CallerTransactions :
         LET r == add_transaction(Self, t)
         IN r.result = ErrFinalized /\ r.bundle.transactions = transactions
    /\ \A inputs \in InputLists :
         \A nows \in Clocks(Len(inputs) * (DIGEST_ITERATIONS + 1)) :
           LET r == add_inputs(Self, inputs, nows)
           IN r.result = ErrFinalized /\ r.bundle.transactions = transactions
    /\ \A a \in AnyAddress : \A now \in Timestamps :
         LET r == send_unspent_inputs_to(Self, a, now)
         IN r.result = ErrFinalized /\ r.bundle.transactions = transactions

C3_Witness ==
  /\ hash /= None /\ Len(transactions) > 0
  /\ last.op = "add_inputs" /\ last.result = ErrFinalized

\* the stamps finalize leaves on the transactions
Stamps(txs) ==
  [i \in 1..Len(txs) |-> <<txs[i].current_index, txs[i].last_index, txs[i].bundle_hash>>]

\* C4: once the hash is set, a finalize call fails with the finalized error,
\* and no step changes the hash or any transaction's current_index,
\* last_index or bundle hash stamp.
C4_FinalizeIsOneShot ==
  [][hash /= None =>
       /\ hash' = hash
       /\ Stamps(transactions') = Stamps(transactions)
       /\ finalize(Self).result = ErrFinalized
       /\ last'.op = "finalize" => last'.result = ErrFinalized]_vars

C4_Witness ==
  /\ hash /= None /\ Len(transactions) > 0
  /\ last.op = "finalize" /\ last.result = ErrFinalized

\* C5: in a finalized bundle of n transactions every transaction carries the
\* bundle's own hash, and the transaction at 0-based position i has
\* current_index = i and last_index = n - 1.
C5_StampsMatchPositions ==
  hash /= None =>
    \A i \in 1..Len(transactions) :
      /\ transactions[i].bundle_hash = hash
      /\ transactions[i].current_index = Some(i - 1)
      /\ transactions[i].last_index = Some(Len(transactions) - 1)

C5_Witness ==
  /\ last.op = "finalize" /\ last.result = OK
  /\ Len(transactions) >= 3

\* C6: on an unfinalized bundle, add_inputs of one address with balance b
\* and a key_index succeeds and appends 1 + DIGEST_ITERATIONS transactions
\* for that address: a spend of value -b, then fillers of value 0.
C6_AddInputsAppendsSpendAndFillers ==
  hash = None =>
    \A a \in InputAddresses :
      (a.balance /= None /\ a.key_index /= None) =>
        \A nows \in Clocks(DIGEST_ITERATIONS + 1) :
          LET r == add_inputs(Self, <<a>>, nows)
              n == Len(transactions)
              new == r.bundle.transactions
          IN /\ r.result = OK
             /\ Len(new) = n + 1 + DIGEST_ITERATIONS
             /\ SubSeq(new, 1, n) = transactions
             /\ new[n + 1].address = a
             /\ new[n + 1].value = 0 - a.balance[1]
             /\ \A k \in 1..DIGEST_ITERATIONS :
                  new[n + 1 + k].address = a /\ new[n + 1 + k].value = 0

\* C7: after sign_inputs succeeds, every transaction add_inputs made (the
\* spend and each of its fillers) has a signature_message_fragment.
C7_InputTransactionsSigned ==
  (last.op = "sign_inputs" /\ last.result = OK) =>
    \A i \in 1..Len(transactions) :
      transactions[i].origin \in {"spend", "filler"} =>
        transactions[i].signature_message_fragment /= None

\* C8: from the empty bundle, add_transaction of an output of 100, add_inputs
\* of one address with balance 100 and key_index 0, finalize and sign_inputs
\* all succeed and give 4 transactions that sum to 0, all carry the bundle
\* hash, and the spend and its first filler carry two distinct fragments.
C8_EndToEnd ==
  (hash = None /\ transactions = <<>>) =>
    \A nows \in Clocks(DIGEST_ITERATIONS + 1) : \A seed \in Seeds :
      LET output == ProposedTransaction(OutputAddress, 100, Some("TAG"), None,
                                        Some(1), 1, "output")
          input == Address("B", FALSE, Some(100), Some(0))
          r1 == add_transaction(Self, output)
          r2 == add_inputs(r1.bundle, <<input>>, nows)
          r3 == finalize(r2.bundle)
          r4 == sign_inputs(r3.bundle, seed)
          txs == r4.bundle.transactions
      IN /\ r1.result = OK /\ r2.result = OK /\ r3.result = OK /\ r4.result = OK
         /\ Len(txs) = 4
         /\ SumValues(txs) = 0
         /\ r4.bundle.hash /= None
         /\ \A i \in 1..4 : txs[i].bundle_hash = r4.bundle.hash
         /\ txs[2].signature_message_fragment /= None
         /\ txs[3].signature_message_fragment /= None
         /\ txs[2].signature_message_fragment /= txs[3].signature_message_fragment

HasNullInput(inputs) ==
  \E k \in 1..Len(inputs) : inputs[k].balance = None \/ inputs[k].key_index = None

\* C9: on an unfinalized bundle, add_inputs of a list in which some address
\* has a null balance or a null key_index fails, and the call that fails on
\* such an address leaves the transaction sequence exactly as it was.
C9_AddInputsAllOrNothing ==
  [][/\ hash = None =>
          \A inputs \in InputLists :
            HasNullInput(inputs) =>
              \A nows \in Clocks(Len(inputs) * (DIGEST_ITERATIONS + 1)) :
                add_inputs(Self, inputs, nows).result /= OK
     /\ (last'.op = "add_inputs" /\ last'.result \in {ErrNullBalance, ErrNullKeyIndex}) =>
          transactions' = transactions]_vars

\* C10: on an unfinalized bundle, add_transaction fails with the
\* negative-value error when the value is below 0 and leaves the transaction
\* sequence and the tag as they were; for every value of 0 or more it
\* succeeds.
C10_AddTransactionValueTest ==
  hash = None =>
    \A t \in CallerTransactions :
      LET r == add_transaction(Self, t)
      IN /\ t.value < 0 =>
              /\ r.result = ErrNegative
              /\ r.bundle.transactions = transactions
              /\ r.bundle.tag = tag
         /\ t.value >= 0 => r.result = OK

C10_Witness ==
  /\ last.op = "add_transaction" /\ last.result = ErrNegative
  /\ hash = None /\ Len(transactions) > 0 /\ tag /= None

\* C11: add_transaction of a transaction whose message has n trytes appends
\* exactly ceil(n / MESSAGE_LEN) transactions (one when n <= MESSAGE_LEN):
\* the first carries the original value and the first MESSAGE_LEN trytes,
\* each following one carries value 0 and the next MESSAGE_LEN trytes in
\* order (the last one padded), and all carry the original address, tag and
\* timestamp.
C11_MessageSplit ==
  ~HashIsSet(hash) =>
    \A v \in {0, 100}, s \in MessageStamps, n \in MessageLengths :
      LET t == MessageTransaction(v, s[1], s[2], n)
          r == add_transaction(Self, t)
          new == r.bundle.transactions
          old == Len(transactions)
          k == IF n <= MESSAGE_LEN THEN 1 ELSE (n + MESSAGE_LEN - 1) \div MESSAGE_LEN
      IN /\ r.result = OK
         /\ Len(new) = old + k
         /\ SubSeq(new, 1, old) = transactions
         /\ new[old + 1].value = v
         /\ \A j \in 1..k :
              /\ new[old + j].message =
                   Trytes("M", (j - 1) * MESSAGE_LEN, Min(j * MESSAGE_LEN, n), MESSAGE_LEN)
              /\ new[old + j].address = t.address
              /\ new[old + j].tag = t.tag
              /\ new[old + j].timestamp = t.timestamp
              /\ j > 1 => new[old + j].value = 0

\* a message of more than 2 * MESSAGE_LEN trytes was added with value 100:
\* three transactions, the third holding the trytes from 2 * MESSAGE_LEN on
C11_Witness ==
  /\ last.op = "add_transaction" /\ last.result = OK
  /\ Len(transactions) = 3
  /\ transactions[1].value = 100 /\ transactions[1].origin = "output"
  /\ transactions[2].origin = "continuation"
  /\ transactions[3].origin = "continuation"
  /\ transactions[3].message = Trytes("M", 2 * MESSAGE_LEN, 2 * MESSAGE_LEN + 1, MESSAGE_LEN)

\* C12: send_unspent_inputs_to(address) on an unfinalized bundle: when the
\* balance is negative it appends exactly one transaction, to that address,
\* with value -balance, so that the balance is 0 afterwards; when the balance
\* is zero or positive it leaves the bundle unchanged.
C12_SendUnspentInputs ==
  ~HashIsSet(hash) =>
    \A a \in AnyAddress, now \in Timestamps :
      LET r == send_unspent_inputs_to(Self, a, now)
          new == r.bundle.transactions
          old == Len(transactions)
      IN /\ r.result = OK
         /\ IF balance(Self) < 0
            THEN /\ Len(new) = old + 1
                 /\ SubSeq(new, 1, old) = transactions
                 /\ new[old + 1].address = a
                 /\ new[old + 1].value = 0 - balance(Self)
                 /\ balance(r.bundle) = 0
            ELSE r.bundle = Self

\* the bundle held a value of -100, and the call appended the change of 100
C12_Witness ==
  /\ last.op = "send_unspent_inputs_to" /\ last.result = OK
  /\ Len(transactions) > 1
  /\ transactions[Len(transactions)].origin = "change"
  /\ transactions[Len(transactions)].value = 100
  /\ \E i \in 1..Len(transactions) : transactions[i].value = -100
  /\ balance(Self) = 0

\* C13: sign_inputs on a bundle whose hash is not set fails with the
\* not-finalized error and writes no signature fragment: the bundle is as it
\* was before the call.
C13_SignNeedsFinalize ==
  ~HashIsSet(hash) =>
    \A seed \in Seeds :
      LET r == sign_inputs(Self, seed)
      IN /\ r.result = ErrNotFinalized
         /\ r.bundle = Self

\* sign_inputs was refused on an unfinalized bundle that holds an input (a
\* negative value followed by its fillers), none of them signed
C13_Witness ==
  /\ last.op = "sign_inputs" /\ last.result = ErrNotFinalized
  /\ ~HashIsSet(hash)
  /\ \E i \in 1..Len(transactions) :
       /\ transactions[i].value < 0
       /\ i + DIGEST_ITERATIONS - 1 <= Len(transactions)
  /\ \A i \in 1..Len(transactions) : transactions[i].signature_message_fragment = None

\* the cursor positions (0-based) from i on at which the loop of sign_inputs
\* finds an input to sign
RECURSIVE SignedInputs(_, _)
SignedInputs(txs, i) ==
  IF i >= Len(txs) THEN {}
  ELSE IF txs[i + 1].value < 0
       THEN {i} \cup SignedInputs(txs, i + DIGEST_ITERATIONS)
       ELSE SignedInputs(txs, i + 1)

\* the bundle with the key_index of the input at cursor position p replaced
WithKeyIndex(b, p, k) ==
  Bundle(b.hash, b.tag, [b.transactions EXCEPT ![p + 1].address.key_index = Some(k)])

\* C14: two runs of sign_inputs on the same finalized bundle that differ only
\* in the key index (and so the private key) of one spent input write the
\* same signature fragments to the transactions of every other input.
C14_SigningIsPerInput ==
  HashIsSet(hash) =>
    \A seed \in Seeds, k \in KeyIndexes :
      \A p \in SignedInputs(transactions, 0) :
        transactions[p + 1].address.key_index /= None =>
          LET one == sign_inputs(Self, seed).bundle.transactions
              two == sign_inputs(WithKeyIndex(Self, p, k), seed).bundle.transactions
          IN \A i \in 1..Len(transactions) :
               i \notin (p + 1)..(p + DIGEST_ITERATIONS) =>
                 one[i].signature_message_fragment = two[i].signature_message_fragment

\* a finalized bundle with two spent inputs was signed: both carry fragments
C14_Witness ==
  /\ last.op = "sign_inputs" /\ last.result = OK
  /\ \E p, q \in SignedInputs(transactions, 0) :
       /\ p < q
       /\ transactions[p + 1].signature_message_fragment /= None
       /\ transactions[q + 1].signature_message_fragment /= None
       /\ transactions[q + DIGEST_ITERATIONS].signature_message_fragment /= None

\* the tag a bundle shows: no tag yet (None) reads as the empty tag
TagOf(t) == IF t = None THEN EmptyTag ELSE t[1]

C16_OnlyFullLengthParses ==
  (last.op = "from_tryte_string" /\ Length(wire[1]) /= 2673) => last.result /= OK

\* C17: for every Transaction constructed with all fields set, as_tryte_string returns
\* exactly 2673 trytes with each field at its offsets of the layout: the
\* signature fragment (padded) at 0-2187, the address hash at 2187-2268,
\* value, tag, timestamp, current_index, last_index, bundle_id, trunk, branch
\* and nonce after them; an empty or short signature fragment and an address
\* with a checksum are included.
C17_SerializedLayout ==
  (last.op = "Transaction" /\ UnsetFields(attached[1]) = {}) =>
    LET t == attached[1]
        r == as_tryte_string(t)
    IN /\ r.result = OK
       /\ Length(r.trytes) = 2673
       /\ Cut(r.trytes, 0, 2187) = PadTo(t.signature_message_fragment, 2187)
       /\ Cut(r.trytes, 2187, 2268) = Cut(t.address, 0, 81)
       /\ Cut(r.trytes, 2268, 2295) = IntTrytes(t.value, 81)
       /\ Cut(r.trytes, 2295, 2322) = t.tag
       /\ Cut(r.trytes, 2322, 2331) = IntTrytes(t.timestamp, 27)
       /\ Cut(r.trytes, 2331, 2340) = IntTrytes(t.current_index[1], 27)
       /\ Cut(r.trytes, 2340, 2349) = IntTrytes(t.last_index[1], 27)
       /\ Cut(r.trytes, 2349, 2430) = t.bundle_id[1]
       /\ Cut(r.trytes, 2430, 2511) = t.trunk_transaction_id[1]
       /\ Cut(r.trytes, 2511, 2592) = t.branch_transaction_id[1]
       /\ Cut(r.trytes, 2592, 2673) = t.nonce[1]

OutsideEssence(t, what) ==
  CASE what = "message" -> [t EXCEPT !.message = Pad(Trytes("OTHER", 0, 5, 5), MESSAGE_LEN)]
    [] what = "signature" ->
         [t EXCEPT !.signature_message_fragment =
                     Some(SignatureFragment(PrivateKey("OTHER", 7, DIGEST_ITERATIONS), 0,
                                            HashChunk(CurlHash(<<>>), 0)))]
    [] what = "checksum" -> [t EXCEPT !.address.checksum = ~t.address.checksum]
    [] what = "balance" -> [t EXCEPT !.address.balance = Some(7)]
    [] what = "key_index" -> [t EXCEPT !.address.key_index = Some(7)]

Outside == {"message", "signature", "checksum", "balance", "key_index"}

\* C19: the bundle hash that finalize computes is a function of the essence
\* fields alone (address hash without checksum, value, tag, timestamp,
\* current_index, last_index of each transaction in order): a balanced bundle
\* and the same bundle with other message content, signature fragments,
\* address checksums or balance and key_index annotations, in one transaction
\* or in all of them, get the same hash; and the hash of a finalized bundle
\* is the hash of these fields.
C19_HashOfEssenceOnly ==
  /\ (~HashIsSet(hash) /\ balance(Self) = 0) =>
       \A what \in Outside :
         /\ \A i \in 1..Len(transactions) :
              finalize(Bundle(hash, tag, [transactions EXCEPT
                                            ![i] = OutsideEssence(transactions[i], what)])).bundle.hash
                = finalize(Self).bundle.hash
         /\ finalize(Bundle(hash, tag, [i \in 1..Len(transactions) |->
                                          OutsideEssence(transactions[i], what)])).bundle.hash
              = finalize(Self).bundle.hash
  /\ HashIsSet(hash) =>
       hash[1] = CurlHash([i \in 1..Len(transactions) |->
                   << transactions[i].address.address, transactions[i].value,
                      transactions[i].tag, transactions[i].timestamp,
                      i - 1, Len(transactions) - 1 >>])

\* a bundle with a spent input and its change was finalized
C19_Witness ==
  /\ last.op = "finalize" /\ last.result = OK
  /\ HashIsSet(hash)
  /\ Len(transactions) >= 2
  /\ \E i \in 1..Len(transactions) : transactions[i].value < 0

KeepsPrefix(b, r) ==
  /\ Len(r.transactions) >= Len(b.transactions)
  /\ SubSeq(r.transactions, 1, Len(b.transactions)) = b.transactions

\* C22: before finalize the bundle is append-only: after every successful
\* add_transaction, add_inputs or send_unspent_inputs_to call the
\* transactions the bundle held before the call are an unchanged prefix of
\* the transactions it holds after the call.
C22_AppendOnly ==
  ~HashIsSet(hash) =>
    /\ \A t \in CallerTransactions :
         LET r == add_transaction(Self, t)
         IN r.result = OK => KeepsPrefix(Self, r.bundle)
    /\ \A inputs \in DirectInputLists :
         \A nows \in Clocks(Len(inputs) * (DIGEST_ITERATIONS + 1)) :
           LET r == add_inputs(Self, inputs, nows)
           IN r.result = OK => KeepsPrefix(Self, r.bundle)
    /\ \A a \in AnyAddress, now \in Timestamps :
         LET r == send_unspent_inputs_to(Self, a, now)
         IN r.result = OK => KeepsPrefix(Self, r.bundle)

\* a transaction was added to a bundle that already held the transactions
\* of an input, one of them with a value written by the caller
C22_Witness ==
  /\ last.op = "add_transaction" /\ last.result = OK
  /\ Len(transactions) >= 4
  /\ transactions[1].origin = "spend" /\ transactions[1].value = -100
  /\ transactions[Len(transactions)].origin = "output"

Unstamped(txs) ==
  \A i \in 1..Len(txs) :
    /\ txs[i].current_index = None
    /\ txs[i].last_index = None
    /\ txs[i].bundle_hash = None

\* C24: a finalize call that fails because the bundle is unbalanced changes
\* nothing: the hash stays null, no transaction gets a current_index,
\* last_index or bundle hash, and the bundle can still be mutated and, once
\* balanced, finalized.
C24_FailedFinalizeChangesNothing ==
  /\ (~HashIsSet(hash) /\ balance(Self) /= 0) =>
       LET r == finalize(Self)
       IN /\ r.result = (IF balance(Self) > 0 THEN ErrInsufficient ELSE ErrUnspent)
          /\ r.bundle = Self
          /\ ~HashIsSet(r.bundle.hash)
          /\ Unstamped(r.bundle.transactions)
          /\ \A t \in DirectTransactions : add_transaction(r.bundle, t).result = OK
          /\ balance(Self) < 0 =>
               \A now \in Timestamps :
                 LET c == send_unspent_inputs_to(r.bundle, OutputAddress, now)
                 IN c.result = OK /\ finalize(c.bundle).result = OK
  /\ (last.op = "finalize" /\ last.result \in {ErrInsufficient, ErrUnspent}) =>
       (~HashIsSet(hash) /\ Unstamped(transactions))

\* finalize was refused on a bundle with unspent inputs
C24_Witness ==
  /\ last.op = "finalize" /\ last.result = ErrUnspent
  /\ ~HashIsSet(hash)
  /\ Len(transactions) > 1
  /\ balance(Self) < 0

\* position i (1-based) lies in the slots p .. p + DIGEST_ITERATIONS - 1 of a
\* transaction with a negative value at p
InSpendSlots(txs, i) ==
  \E p \in 1..i : txs[p].value < 0 /\ i <= p + DIGEST_ITERATIONS - 1

\* C25: sign_inputs changes only the signature_message_fragment of
\* transactions in the slots of a spend: the hash, the tag, the number and
\* order of the transactions and every other field of every transaction stay
\* as they were, and so does the fragment of every transaction outside the
\* slots of every spend.
C25_SignChangesOnlyFragments ==
  HashIsSet(hash) =>
    \A seed \in Seeds :
      LET r == sign_inputs(Self, seed)
          new == r.bundle.transactions
      IN /\ r.bundle.hash = hash
         /\ r.bundle.tag = tag
         /\ Len(new) = Len(transactions)
         /\ \A i \in 1..Len(transactions) :
              /\ [new[i] EXCEPT !.signature_message_fragment =
                                  transactions[i].signature_message_fragment]
                   = transactions[i]
              /\ ~InSpendSlots(transactions, i) =>
                   new[i].signature_message_fragment =
                     transactions[i].signature_message_fragment

\* sign_inputs signed a spend and left a transaction outside its slots
\* unsigned
C25_Witness ==
  /\ last.op = "sign_inputs" /\ last.result = OK
  /\ \E i, k \in 1..Len(transactions) :
       /\ transactions[i].value < 0
       /\ transactions[i].signature_message_fragment /= None
       /\ ~InSpendSlots(transactions, k)
       /\ transactions[k].signature_message_fragment = None

C28_EmptyBundleFinalizes ==
  /\ (transactions = <<>> /\ ~HashIsSet(hash)) =>
       LET r == finalize(Self) IN
       /\ balance(Self) = 0
       /\ r.result = OK
       /\ r.bundle.hash = Some(CurlHash(<<>>))
       /\ HashIsSet(r.bundle.hash)
       /\ r.bundle.transactions = <<>>
       /\ finalize(r.bundle).result = ErrFinalized
       /\ \A t \in CallerTransactions :
            add_transaction(r.bundle, t) = Outcome(r.bundle, ErrFinalized)
  /\ (last.op = "finalize" /\ transactions = <<>>) =>
       /\ hash = Some(CurlHash(<<>>))
       /\ last.result \in {OK, ErrFinalized}

\* a bundle without transactions was finalized
C28_Witness ==
  /\ last.op = "finalize" /\ last.result = OK
  /\ transactions = <<>>
  /\ hash = Some(CurlHash(<<>>))

====
